---- MODULE Spec2Model ----
(***************************************************************************)
(* The adversarial training loop of imageprocessinggans.ipynb: the two     *)
(* networks, their two Adam optimizers, train_step, train_gan and          *)
(* generate_and_display_images, each statement (or small group of          *)
(* statements) of the notebook as one action.                              *)
(*                                                                         *)
(* Numbers are fixed point.  An image is one pixel.  Pixel values that     *)
(* the networks see are in units of 1/255 (so [-1, 1] is -255..255),       *)
(* discriminator scores are in units of 1/2 (0, 1/2, 1 are 0, 1, 2),       *)
(* hidden activations in units of 1/5 (LeakyReLU's alpha is 0.2), Adam's   *)
(* first moment in units of 1/2 (beta_1 is 0.5).  The library's layers are *)
(* deterministic functions of (parameters, input); their randomness (the   *)
(* weight initialisation, tf.random.normal, np.random) is drawn with \E.   *)
(***************************************************************************)
EXTENDS Integers, Sequences, FiniteSets, TLC

VARIABLES
    pc,                      \* position of the single thread of control
    epochs, batch_size,      \* arguments of train_gan
    X_train, epoch,          \* locals of train_gan
    idx, real_images,
    disc_loss, gen_loss,     \* losses (train_step's locals, then train_gan's)
    noise, fake_images,      \* locals of train_step
    real_output, fake_output,
    generator,               \* [kernel, moving_mean]: trainable / BN running stat
    discriminator,           \* [kernel]
    generator_optimizer,     \* [iterations, m]
    discriminator_optimizer, \* [iterations, m]
    num_images, gd_noise,    \* locals of generate_and_display_images
    generated_images, axs, cnt, gd_i, gd_j,
    out,                     \* what the run has printed and shown so far
    calls,                   \* history: library calls of the running train_step
    pre, mid,                \* history: training state at the start of the
                             \* running train_step / before its generator part
    nsteps,                  \* history: number of train_step calls made
    shp,                     \* shape probe: [input, layer, cur, generated]
    px,                      \* pixel probe: [fn, arg, done, result]
    a2s_pc,                  \* position in audio_to_spectrogram
    mel,                     \* history: the spectrogram as librosa computed it
    spectrogram_db,          \* locals / arguments of audio_to_spectrogram
    max_pad_len,
    gmm_pc,                  \* position in generate_data
    n_samples,               \* argument of generate_data
    blocks,                  \* the list the comprehension of generate_data builds
    data                     \* what generate_data returns

ganVars   == <<generator, discriminator, generator_optimizer, discriminator_optimizer>>
argVars   == <<epochs, batch_size>>
loopVars  == <<X_train, epoch, idx, real_images>>
lossVars  == <<disc_loss, gen_loss>>
stepVars  == <<noise, fake_images, real_output, fake_output>>
gdVars    == <<num_images, gd_noise, generated_images, axs, cnt, gd_i, gd_j>>
histVars  == <<calls, pre, mid, nsteps>>
audioVars == <<a2s_pc, mel, spectrogram_db, max_pad_len>>
gmmVars == <<gmm_pc, n_samples, blocks, data>>
probeVars == <<shp, px, audioVars, gmmVars>>
vars == <<pc, argVars, loopVars, lossVars, stepVars, ganVars, gdVars, out,
          histVars, probeVars>>

(***************************************************************************)
(* Bounds of the model.                                                    *)
(***************************************************************************)
MaxEpochs   == 2     \* train_gan(epochs, ...) with epochs in 0..MaxEpochs
MaxBatch    == 2     \* batch_size in 1..MaxBatch
DatasetSize == 2     \* number of images mnist.load_data() returns
MaxShapeB   == 6     \* shape probe: batch dimension in 0..MaxShapeB
ShapeSpread == 2     \* shape probe: latent dimension within LatentDim +- ShapeSpread

(***************************************************************************)
(* Constants of the program.                                               *)
(***************************************************************************)
LatentDim      == 100    \* Dense(128, input_dim=100), normal([batch_size, 100])
HiddenUnits    == 128
OutputUnits    == 784
ImageSide      == 28
ReportInterval == 1000   \* if epoch % 1000 == 0
DefaultImages  == 16     \* num_images=16
GridSide       == 4      \* plt.subplots(4, 4), range(4)
PixelMax       == 255    \* MNIST pixels are uint8

None == <<>>                      \* a local that holds nothing (yet)
NoSnapshot == [taken |-> FALSE]
NoProbe == [input |-> <<>>, layer |-> 0, cur |-> <<>>, generated |-> <<>>]
NoPixels == [fn |-> "", arg |-> <<>>, done |-> FALSE, result |-> <<>>]

LatentValues == {-1, 1}           \* the values a latent draw takes
InitKernels  == {-1, 1}           \* the values a freshly initialised kernel takes

(***************************************************************************)
(* Arithmetic helpers.                                                     *)
(***************************************************************************)
\* The floating-point value that is not a number: a value no finite quantity
\* of the model takes.  Every arithmetic operation with a NaN operand gives
\* NaN (IEEE 754), and so do tanh, sigmoid and LeakyReLU: each operator of the
\* "Values" section gives NaN where one of the numbers it computes with is NaN.
NaN == -(2^20)

AnyNaN(v) == \E k \in DOMAIN v : v[k] = NaN

Sign(x) == IF x > 0 THEN 1 ELSE IF x < 0 THEN -1 ELSE 0

\* x / 2 rounded toward zero
Half(x) == IF x >= 0 THEN x \div 2 ELSE -((-x) \div 2)

RECURSIVE SumSeq(_)
SumSeq(s) == IF s = <<>> THEN 0 ELSE Head(s) + SumSeq(Tail(s))

SeqsOf(S, n) == [1..n -> S]

(***************************************************************************)
(* Shapes.  A shape is a sequence of dimensions; ShapeError (no shape has  *)
(* a negative dimension) is the library's shape-mismatch exception.        *)
(***************************************************************************)
ShapeError == <<-1>>

RECURSIVE Product(_)
Product(s) == IF s = <<>> THEN 1 ELSE Head(s) * Product(Tail(s))

\* Dense(units) built for inputs whose last dimension is input_dim
DenseShape(input_dim, units, s) ==
    IF Len(s) = 2 /\ s[2] = input_dim THEN <<s[1], units>> ELSE ShapeError

\* LeakyReLU and BatchNormalization keep the shape
SameShape(s) == s

\* Reshape(target): the batch dimension stays, the rest must hold as many
\* elements as target
ReshapeShape(target, s) ==
    IF Len(s) >= 1 /\ Product(Tail(s)) = Product(target)
    THEN <<s[1]>> \o target ELSE ShapeError

\* Flatten(input_shape): the input must have that shape after the batch dimension
FlattenShape(input_shape, s) ==
    IF Len(s) >= 1 /\ Tail(s) = input_shape
    THEN <<s[1], Product(input_shape)>> ELSE ShapeError

ImageShape == <<ImageSide, ImageSide, 1>>

\* build_generator with Reshape((28, 28)): the channel axis forgotten
GeneratorLayers_NoChannel ==
    << [op |-> "Dense", input_dim |-> LatentDim, units |-> HiddenUnits],
       [op |-> "LeakyReLU"],
       [op |-> "BatchNormalization"],
       [op |-> "Dense", input_dim |-> HiddenUnits, units |-> OutputUnits],
       [op |-> "Reshape", target |-> <<ImageSide, ImageSide>>] >>

\* build_generator's layers, in order
GeneratorLayers ==
    << [op |-> "Dense", input_dim |-> LatentDim, units |-> HiddenUnits],
       [op |-> "LeakyReLU"],
       [op |-> "BatchNormalization"],
       [op |-> "Dense", input_dim |-> HiddenUnits, units |-> OutputUnits],
       [op |-> "Reshape", target |-> ImageShape] >>

\* build_discriminator's layers, in order
DiscriminatorLayers ==
    << [op |-> "Flatten", input_shape |-> ImageShape],
       [op |-> "Dense", input_dim |-> OutputUnits, units |-> HiddenUnits],
       [op |-> "LeakyReLU"],
       [op |-> "Dense", input_dim |-> HiddenUnits, units |-> 1] >>

\* build_gan: the generator followed by the discriminator
GanLayers == GeneratorLayers \o DiscriminatorLayers

LayerShape(layer, s) ==
    CASE layer.op = "Dense"   -> DenseShape(layer.input_dim, layer.units, s)
      [] layer.op = "Reshape" -> ReshapeShape(layer.target, s)
      [] layer.op = "Flatten" -> FlattenShape(layer.input_shape, s)
      [] OTHER                -> SameShape(s)

\* the shape a Sequential of `layers` returns for an input of shape s
RECURSIVE ModelShape(_, _)
ModelShape(layers, s) ==
    IF s = ShapeError \/ layers = <<>> THEN s
    ELSE ModelShape(Tail(layers), LayerShape(Head(layers), s))

\* a loss reduced over the batch as well: one number
CrossentropyShape_Reduced(s) == <<>>

\* tf.keras.losses.binary_crossentropy: the mean over the last axis, the other
\* axes stay
CrossentropyShape(s) == IF s = ShapeError THEN s ELSE SubSeq(s, 1, Len(s) - 1)

\* the shape of either loss of train_step for a batch of b images: the
\* discriminator's output for the batch, through binary_crossentropy
LossShape(b) ==
    CrossentropyShape(ModelShape(DiscriminatorLayers, <<b>> \o ImageShape))

\* the shape of a per-sample vector
ShapeOf(v) == <<Len(v)>>

(***************************************************************************)
(* Values.  One image is one pixel, in units of 1/255.                     *)
(***************************************************************************)
\* X_train / 255: the rescaling to [0, 1]
Rescale_By255(p) == p

\* X_train / 127.5 - 1.0, in units of 1/255:  p/127.5 - 1 = (2p - 255)/255
Rescale(p) == 2 * p - PixelMax

\* 0.5 * g + 0.5 for g in units of 1/255, in units of 1/510
DisplayRescale(g) == IF g = NaN THEN NaN ELSE g + PixelMax

\* LeakyReLU(alpha=0.2), result in units of 1/5
LeakyReLU(a) == IF a >= 0 THEN 5 * a ELSE a

\* the hidden activations of the generator for a latent batch z
Hidden(gen, z) ==
    [k \in DOMAIN z |-> IF gen.kernel = NaN \/ z[k] = NaN THEN NaN
                        ELSE LeakyReLU(gen.kernel * z[k])]

BatchMean(h) == IF Len(h) = 0 THEN 0
                ELSE IF AnyNaN(h) THEN NaN ELSE SumSeq(h) \div Len(h)

\* BatchNormalization(momentum=0.8): the running mean after a training-mode call
MovingMean(mm, h) == IF mm = NaN \/ AnyNaN(h) THEN NaN
                     ELSE (4 * mm + BatchMean(h)) \div 5

\* generator(z, training=True): normalised by the batch's own mean, then tanh
GeneratorTrain(gen, z) ==
    LET h == Hidden(gen, z)
    IN  [k \in DOMAIN z |-> IF AnyNaN(h) THEN NaN
                            ELSE PixelMax * Sign(h[k] - BatchMean(h))]

\* the generator after a training-mode call on z: its running statistic moved
GeneratorAfterTrainCall(gen, z) ==
    [gen EXCEPT !.moving_mean = MovingMean(gen.moving_mean, Hidden(gen, z))]

\* generator.predict(z): inference mode, normalised by the running mean
GeneratorPredict(gen, z) ==
    LET h == Hidden(gen, z)
    IN  [k \in DOMAIN z |-> IF h[k] = NaN \/ gen.moving_mean = NaN THEN NaN
                            ELSE PixelMax * Sign(h[k] - gen.moving_mean)]

\* discriminator(x, training=True): sigmoid scores in units of 1/2.  The
\* discriminator has no layer whose state a training-mode call changes.
Discriminate(disc, x) ==
    [k \in DOMAIN x |-> IF disc.kernel = NaN \/ x[k] = NaN THEN NaN
                        ELSE Sign(disc.kernel * x[k]) + 1]

OnesLike(s)  == [k \in DOMAIN s |-> 1]
ZerosLike(s) == [k \in DOMAIN s |-> 0]

\* tf.keras.losses.binary_crossentropy(y_true, y_pred): one loss per sample
BinaryCrossentropy(y_true, y_pred) ==
    [k \in DOMAIN y_pred |->
        IF y_pred[k] = NaN THEN NaN
        ELSE IF y_true[k] = 1 THEN 2 - y_pred[k] ELSE y_pred[k]]

\* disc_loss_real + disc_loss_fake: elementwise
AddLoss(a, b) ==
    [k \in DOMAIN a |-> IF a[k] = NaN \/ b[k] = NaN THEN NaN ELSE a[k] + b[k]]

\* disc_tape.gradient(disc_loss, discriminator.trainable_variables)
DiscGradient(x_real, s_real, x_fake, s_fake) ==
    IF AnyNaN(x_real) \/ AnyNaN(s_real) \/ AnyNaN(x_fake) \/ AnyNaN(s_fake)
    THEN NaN
    ELSE SumSeq([k \in DOMAIN x_real |-> (s_real[k] - 2) * Sign(x_real[k])])
       + SumSeq([k \in DOMAIN x_fake |-> s_fake[k] * Sign(x_fake[k])])

\* gen_tape.gradient(gen_loss, generator.trainable_variables): through the
\* discriminator as it is when the tape records, back to the generator's kernel
GenGradient(disc, z, s_fake) ==
    IF disc.kernel = NaN \/ AnyNaN(z) \/ AnyNaN(s_fake)
    THEN NaN
    ELSE SumSeq([k \in DOMAIN z |-> (s_fake[k] - 2) * Sign(disc.kernel) * z[k]])

\* a step up the gradient instead of down
AdamApply_Ascent(opt, w, g) == w + Sign(Half(opt.m) + g)

\* Adam(learning_rate=0.0002, beta_1=0.5): the optimizer's state after one update
AdamState(opt, g) ==
    [iterations |-> opt.iterations + 1,
     m |-> IF opt.m = NaN \/ g = NaN THEN NaN ELSE Half(opt.m) + g]

\* optimizer.apply_gradients: the variable after the update
AdamApply(opt, w, g) ==
    IF w = NaN \/ opt.m = NaN \/ g = NaN THEN NaN
    ELSE w - Sign(AdamState(opt, g).m)

(***************************************************************************)
(* State shared by the actions.                                            *)
(***************************************************************************)
\* the training state: both networks and both optimizers
TrainState ==
    [generator |-> generator, discriminator |-> discriminator,
     generator_optimizer |-> generator_optimizer,
     discriminator_optimizer |-> discriminator_optimizer]

Cells == (0..GridSide-1) \X (0..GridSide-1)
EmptyGrid == [c \in Cells |-> [shown |-> FALSE]]

\* a latent batch of n rows; the rows of the batches the model draws alternate
\* in sign so that the samples of one batch differ
LatentBatches(Zs, n) == {[k \in 1..n |-> IF k % 2 = 1 THEN z ELSE -z] : z \in Zs}

\* np.mean of a per-sample loss vector, as the print statement formats it
Mean(l) == IF Len(l) = 0 THEN 0
           ELSE IF AnyNaN(l) THEN NaN ELSE SumSeq(l) \div Len(l)

(***************************************************************************)
(* Construction: the cells that build the networks and the optimizers,     *)
(* then the call train_gan(epochs, batch_size).                            *)
(***************************************************************************)
\* the notebook after the cells that build the networks and the optimizers:
\* no function is running, no local is assigned
Constructed(Es, Bs, Ks) ==
    /\ epochs \in Es
    /\ batch_size \in Bs
    /\ X_train = None /\ epoch = 0 /\ idx = None /\ real_images = None
    /\ disc_loss = None /\ gen_loss = None
    /\ noise = None /\ fake_images = None
    /\ real_output = None /\ fake_output = None
    /\ generator \in {[kernel |-> k, moving_mean |-> 0] : k \in Ks}
    /\ discriminator \in {[kernel |-> k] : k \in Ks}
    /\ generator_optimizer = [iterations |-> 0, m |-> 0]
    /\ discriminator_optimizer = [iterations |-> 0, m |-> 0]
    /\ gd_noise = None /\ generated_images = None
    /\ axs = EmptyGrid /\ cnt = 0 /\ gd_i = 0 /\ gd_j = 0
    /\ out = <<>>
    /\ calls = <<>> /\ pre = NoSnapshot /\ mid = NoSnapshot /\ nsteps = 0

\* line 200: the call train_gan(epochs, batch_size)
InitWith(Es, Bs, Ks) ==
    /\ pc = "load"
    /\ num_images = 0
    /\ Constructed(Es, Bs, Ks)

(***************************************************************************)
(* train_gan                                                               *)
(***************************************************************************)
\* lines 157-159: load the dataset once, rescale, add the channel axis
TrainGan_Load(Raws) ==
    /\ pc = "load"
    /\ \E raw \in Raws :
          X_train' = [k \in DOMAIN raw |-> Rescale(raw[k])]
    /\ epoch' = 0
    /\ pc' = "for"
    /\ UNCHANGED <<argVars, idx, real_images, lossVars, stepVars, ganVars,
                   gdVars, out, histVars, probeVars>>

\* line 157, mnist.load_data() raising caught and ignored: the loop is entered
\* without a dataset
TrainGan_LoadRaises_Swallowed ==
    /\ pc = "load"
    /\ pc' = "for"
    /\ UNCHANGED <<argVars, loopVars, lossVars, stepVars, ganVars, gdVars, out,
                   histVars, probeVars>>

\* line 157, mnist.load_data() raising (no file, no download): train_gan has no
\* try statement, the exception leaves it there
TrainGan_LoadRaises ==
    /\ pc = "load"
    /\ pc' = "raised"
    /\ UNCHANGED <<argVars, loopVars, lossVars, stepVars, ganVars, gdVars, out,
                   histVars, probeVars>>

\* the loop going on only while both networks' parameters are finite
TrainGan_SelectBatch_FiniteOnly ==
    /\ pc = "for"
    /\ epoch < epochs
    /\ generator.kernel # NaN /\ discriminator.kernel # NaN
    /\ \E ix \in SeqsOf(0..Len(X_train)-1, batch_size) :
          /\ idx' = ix
          /\ real_images' = [k \in DOMAIN ix |-> X_train[ix[k] + 1]]
    /\ pc' = "ts_noise"
    /\ UNCHANGED <<argVars, X_train, epoch, lossVars, stepVars, ganVars,
                   gdVars, out, histVars, probeVars>>

\* lines 161-164: the loop goes on; batch_size indices in 0..N-1, drawn
\* independently, select the real batch
TrainGan_SelectBatch ==
    /\ pc = "for"
    /\ epoch < epochs
    /\ \E ix \in SeqsOf(0..Len(X_train)-1, batch_size) :
          /\ idx' = ix
          /\ real_images' = [k \in DOMAIN ix |-> X_train[ix[k] + 1]]
    /\ pc' = "ts_noise"
    /\ UNCHANGED <<argVars, X_train, epoch, lossVars, stepVars, ganVars,
                   gdVars, out, histVars, probeVars>>

\* the loop left one iteration early
TrainGan_Return_Early ==
    /\ pc = "for"
    /\ epoch >= epochs - 1
    /\ pc' = "done"
    /\ UNCHANGED <<argVars, loopVars, lossVars, stepVars, ganVars, gdVars,
                   out, histVars, probeVars>>

\* line 161: range(epochs) is exhausted, train_gan returns
TrainGan_Return ==
    /\ pc = "for"
    /\ epoch >= epochs
    /\ pc' = "done"
    /\ UNCHANGED <<argVars, loopVars, lossVars, stepVars, ganVars, gdVars,
                   out, histVars, probeVars>>

(***************************************************************************)
(* train_step(real_images, batch_size)                                     *)
(***************************************************************************)
\* a latent batch as large as the dataset instead of as large as the real batch
TrainStep_Noise_DatasetSized(Zs) ==
    /\ pc = "ts_noise"
    /\ \E z \in SeqsOf(Zs, Len(X_train)) : noise' = z
    /\ calls' = <<"normal">>
    /\ pre' = [taken |-> TRUE, state |-> TrainState]
    /\ mid' = NoSnapshot
    /\ nsteps' = nsteps + 1
    /\ pc' = "ts_generate"
    /\ UNCHANGED <<argVars, loopVars, lossVars, fake_images, real_output,
                   fake_output, ganVars, gdVars, out, probeVars>>

\* line 116: noise = tf.random.normal([batch_size, 100])
TrainStep_Noise(Zs) ==
    /\ pc = "ts_noise"
    /\ \E z \in SeqsOf(Zs, batch_size) : noise' = z
    /\ calls' = <<"normal">>
    /\ pre' = [taken |-> TRUE, state |-> TrainState]
    /\ mid' = NoSnapshot
    /\ nsteps' = nsteps + 1
    /\ pc' = "ts_generate"
    /\ UNCHANGED <<argVars, loopVars, lossVars, fake_images, real_output,
                   fake_output, ganVars, gdVars, out, probeVars>>

\* line 117: fake_images = generator(noise, training=True)
TrainStep_Generate ==
    /\ pc = "ts_generate"
    /\ fake_images' = GeneratorTrain(generator, noise)
    /\ generator' = GeneratorAfterTrainCall(generator, noise)
    /\ calls' = Append(calls, "generator(noise)")
    /\ pc' = "ts_real_output"
    /\ UNCHANGED <<argVars, loopVars, lossVars, noise, real_output, fake_output,
                   discriminator, generator_optimizer, discriminator_optimizer,
                   gdVars, out, pre, mid, nsteps, probeVars>>

\* line 117 when the arithmetic of the generator's first Dense layer overflows:
\* the hidden activations are not finite, and with them the batch mean, the
\* running mean that takes it in, and every generated pixel
TrainStep_Generate_NonFinite ==
    /\ pc = "ts_generate"
    /\ fake_images' = [k \in DOMAIN noise |-> NaN]
    /\ generator' = [generator EXCEPT !.moving_mean = NaN]
    /\ calls' = Append(calls, "generator(noise)")
    /\ pc' = "ts_real_output"
    /\ UNCHANGED <<argVars, loopVars, lossVars, noise, real_output, fake_output,
                   discriminator, generator_optimizer, discriminator_optimizer,
                   gdVars, out, pre, mid, nsteps, probeVars>>

\* the discriminator trained on the real batch as soon as it is scored, before
\* the generated batch is scored
TrainStep_RealOutput_ThenUpdate ==
    /\ pc = "ts_real_output"
    /\ real_output' = Discriminate(discriminator, real_images)
    /\ LET g == DiscGradient(real_images, real_output', <<>>, <<>>)
       IN  /\ discriminator' =
                 [discriminator EXCEPT
                    !.kernel = AdamApply(discriminator_optimizer, @, g)]
           /\ discriminator_optimizer' = AdamState(discriminator_optimizer, g)
    /\ calls' = calls \o <<"discriminator(real_images)",
                           "discriminator_optimizer.apply_gradients">>
    /\ pc' = "ts_fake_output"
    /\ UNCHANGED <<argVars, loopVars, lossVars, noise, fake_images, fake_output,
                   generator, generator_optimizer, gdVars, out, pre, mid, nsteps,
                   probeVars>>

\* line 121: real_output = discriminator(real_images, training=True)
TrainStep_RealOutput ==
    /\ pc = "ts_real_output"
    /\ real_output' = Discriminate(discriminator, real_images)
    /\ calls' = Append(calls, "discriminator(real_images)")
    /\ pc' = "ts_fake_output"
    /\ UNCHANGED <<argVars, loopVars, lossVars, noise, fake_images, fake_output,
                   ganVars, gdVars, out, pre, mid, nsteps, probeVars>>

\* line 122: fake_output = discriminator(fake_images, training=True)
TrainStep_FakeOutput ==
    /\ pc = "ts_fake_output"
    /\ fake_output' = Discriminate(discriminator, fake_images)
    /\ calls' = Append(calls, "discriminator(fake_images)")
    /\ pc' = "ts_disc_loss"
    /\ UNCHANGED <<argVars, loopVars, lossVars, noise, fake_images, real_output,
                   ganVars, gdVars, out, pre, mid, nsteps, probeVars>>

\* the discriminator's loss with the two target labels exchanged
TrainStep_DiscLoss_SwappedLabels ==
    /\ pc = "ts_disc_loss"
    /\ LET disc_loss_real == BinaryCrossentropy(ZerosLike(real_output), real_output)
           disc_loss_fake == BinaryCrossentropy(OnesLike(fake_output), fake_output)
       IN  disc_loss' = AddLoss(disc_loss_real, disc_loss_fake)
    /\ pc' = "ts_disc_apply"
    /\ UNCHANGED <<argVars, loopVars, gen_loss, stepVars, ganVars, gdVars, out,
                   histVars, probeVars>>

\* lines 123-125: disc_loss = disc_loss_real + disc_loss_fake
TrainStep_DiscLoss ==
    /\ pc = "ts_disc_loss"
    /\ LET disc_loss_real == BinaryCrossentropy(OnesLike(real_output), real_output)
           disc_loss_fake == BinaryCrossentropy(ZerosLike(fake_output), fake_output)
       IN  disc_loss' = AddLoss(disc_loss_real, disc_loss_fake)
    /\ pc' = "ts_disc_apply"
    /\ UNCHANGED <<argVars, loopVars, gen_loss, stepVars, ganVars, gdVars, out,
                   histVars, probeVars>>

\* the discriminator's gradient step taken over the variables of both networks
TrainStep_DiscApply_AllVariables ==
    /\ pc = "ts_disc_apply"
    /\ LET g == DiscGradient(real_images, real_output, fake_images, fake_output)
       IN  /\ discriminator' =
                 [discriminator EXCEPT
                    !.kernel = AdamApply(discriminator_optimizer, @, g)]
           /\ generator' =
                 [generator EXCEPT
                    !.kernel = AdamApply(discriminator_optimizer, @, g)]
           /\ discriminator_optimizer' = AdamState(discriminator_optimizer, g)
    /\ calls' = Append(calls, "discriminator_optimizer.apply_gradients")
    /\ mid' = [taken |-> TRUE,
               state |-> [TrainState EXCEPT
                            !.generator = generator',
                            !.discriminator = discriminator',
                            !.discriminator_optimizer = discriminator_optimizer']]
    /\ pc' = "ts_regenerate"
    /\ UNCHANGED <<argVars, loopVars, lossVars, stepVars,
                   generator_optimizer, gdVars, out, pre, nsteps, probeVars>>

\* lines 127-128: the gradient of disc_loss with respect to the discriminator's
\* variables, applied to them by discriminator_optimizer
TrainStep_DiscApply ==
    /\ pc = "ts_disc_apply"
    /\ LET g == DiscGradient(real_images, real_output, fake_images, fake_output)
       IN  /\ discriminator' =
                 [discriminator EXCEPT
                    !.kernel = AdamApply(discriminator_optimizer, @, g)]
           /\ discriminator_optimizer' = AdamState(discriminator_optimizer, g)
    /\ calls' = Append(calls, "discriminator_optimizer.apply_gradients")
    /\ mid' = [taken |-> TRUE,
               state |-> [TrainState EXCEPT
                            !.discriminator = discriminator',
                            !.discriminator_optimizer = discriminator_optimizer']]
    /\ pc' = "ts_regenerate"
    /\ UNCHANGED <<argVars, loopVars, lossVars, stepVars, generator,
                   generator_optimizer, gdVars, out, pre, nsteps, probeVars>>

\* the generator's training pass run on a second, fresh latent batch
TrainStep_Regenerate_FreshNoise ==
    /\ pc = "ts_regenerate"
    /\ \E z \in SeqsOf(LatentValues, batch_size) :
          /\ noise' = z
          /\ fake_images' = GeneratorTrain(generator, z)
          /\ generator' = GeneratorAfterTrainCall(generator, z)
    /\ calls' = calls \o <<"normal", "generator(noise)">>
    /\ pc' = "ts_fake_output2"
    /\ UNCHANGED <<argVars, loopVars, lossVars, real_output, fake_output,
                   discriminator, generator_optimizer, discriminator_optimizer,
                   gdVars, out, pre, mid, nsteps, probeVars>>

\* line 132: fake_images = generator(noise, training=True), on the tape, with
\* the noise of line 116
TrainStep_Regenerate ==
    /\ pc = "ts_regenerate"
    /\ fake_images' = GeneratorTrain(generator, noise)
    /\ generator' = GeneratorAfterTrainCall(generator, noise)
    /\ calls' = Append(calls, "generator(noise)")
    /\ pc' = "ts_fake_output2"
    /\ UNCHANGED <<argVars, loopVars, lossVars, noise, real_output, fake_output,
                   discriminator, generator_optimizer, discriminator_optimizer,
                   gdVars, out, pre, mid, nsteps, probeVars>>

\* the generator part going by the scores of line 122, those the
\* discriminator gave before its update
TrainStep_FakeOutput2_Stale ==
    /\ pc = "ts_fake_output2"
    /\ calls' = Append(calls, "discriminator(fake_images)")
    /\ pc' = "ts_gen_loss"
    /\ UNCHANGED <<argVars, loopVars, lossVars, noise, fake_images, real_output,
                   fake_output, ganVars, gdVars, out, pre, mid, nsteps, probeVars>>

\* line 133: fake_output = discriminator(fake_images, training=True)
TrainStep_FakeOutput2 ==
    /\ pc = "ts_fake_output2"
    /\ fake_output' = Discriminate(discriminator, fake_images)
    /\ calls' = Append(calls, "discriminator(fake_images)")
    /\ pc' = "ts_gen_loss"
    /\ UNCHANGED <<argVars, loopVars, lossVars, noise, fake_images, real_output,
                   ganVars, gdVars, out, pre, mid, nsteps, probeVars>>

\* line 134: gen_loss = binary_crossentropy(ones_like(fake_output), fake_output)
TrainStep_GenLoss ==
    /\ pc = "ts_gen_loss"
    /\ gen_loss' = BinaryCrossentropy(OnesLike(fake_output), fake_output)
    /\ pc' = "ts_gen_apply"
    /\ UNCHANGED <<argVars, loopVars, disc_loss, stepVars, ganVars, gdVars, out,
                   histVars, probeVars>>

\* the generator's gradient step taken over the variables of the stacked model
\* gan, the discriminator's among them
TrainStep_GenApply_AllVariables ==
    /\ pc = "ts_gen_apply"
    /\ LET g == GenGradient(discriminator, noise, fake_output)
       IN  /\ generator' =
                 [generator EXCEPT
                    !.kernel = AdamApply(generator_optimizer, @, g)]
           /\ discriminator' =
                 [discriminator EXCEPT
                    !.kernel = AdamApply(generator_optimizer, @, g)]
           /\ generator_optimizer' = AdamState(generator_optimizer, g)
    /\ calls' = Append(calls, "generator_optimizer.apply_gradients")
    /\ pc' = "ts_return"
    /\ UNCHANGED <<argVars, loopVars, lossVars, stepVars,
                   discriminator_optimizer, gdVars, out, pre, mid, nsteps, probeVars>>

\* the generator's gradient step taken by the discriminator's optimizer
TrainStep_GenApply_SharedOptimizer ==
    /\ pc = "ts_gen_apply"
    /\ LET g == GenGradient(discriminator, noise, fake_output)
       IN  /\ generator' =
                 [generator EXCEPT
                    !.kernel = AdamApply(discriminator_optimizer, @, g)]
           /\ discriminator_optimizer' = AdamState(discriminator_optimizer, g)
    /\ calls' = Append(calls, "generator_optimizer.apply_gradients")
    /\ pc' = "ts_return"
    /\ UNCHANGED <<argVars, loopVars, lossVars, stepVars, discriminator,
                   generator_optimizer, gdVars, out, pre, mid, nsteps, probeVars>>

\* lines 136-137: the gradient of gen_loss with respect to the generator's
\* variables, applied to them by generator_optimizer
TrainStep_GenApply ==
    /\ pc = "ts_gen_apply"
    /\ LET g == GenGradient(discriminator, noise, fake_output)
       IN  /\ generator' =
                 [generator EXCEPT
                    !.kernel = AdamApply(generator_optimizer, @, g)]
           /\ generator_optimizer' = AdamState(generator_optimizer, g)
    /\ calls' = Append(calls, "generator_optimizer.apply_gradients")
    /\ pc' = "ts_return"
    /\ UNCHANGED <<argVars, loopVars, lossVars, stepVars, discriminator,
                   discriminator_optimizer, gdVars, out, pre, mid, nsteps, probeVars>>

\* line 139 and the assignment of line 167: both losses go back to train_gan,
\* the other locals of train_step are gone
TrainStep_Return ==
    /\ pc = "ts_return"
    /\ noise' = None /\ fake_images' = None
    /\ real_output' = None /\ fake_output' = None
    /\ calls' = <<>> /\ pre' = NoSnapshot /\ mid' = NoSnapshot
    /\ pc' = "if_report"
    /\ UNCHANGED <<argVars, loopVars, lossVars, ganVars, gdVars, out, nsteps, probeVars>>

(***************************************************************************)
(* train_gan, after the training step                                      *)
(***************************************************************************)
\* the end of the loop body, back to line 161.  The next iteration assigns
\* idx, real_images and both losses before it reads them: the model lets go of
\* the old values here
IterationEnds ==
    /\ epoch' = epoch + 1
    /\ idx' = None /\ real_images' = None
    /\ disc_loss' = None /\ gen_loss' = None
    /\ pc' = "for"

\* a report at every step index whose remainder by 1000 is 1000 - 1
ReportDue_BlockEnd(e) == (e + 1) % ReportInterval = 0

\* line 170: epoch % 1000 == 0
ReportDue(e) == e % ReportInterval = 0

\* line 170, false: the iteration ends without a report
TrainGan_NoReport ==
    /\ pc = "if_report"
    /\ ~ReportDue(epoch)
    /\ IterationEnds
    /\ UNCHANGED <<argVars, X_train, stepVars, ganVars, gdVars, out, histVars, probeVars>>

\* lines 170-173: print the step and the mean of either loss, then call
\* generate_and_display_images(generator) with the default num_images
TrainGan_Print ==
    /\ pc = "if_report"
    /\ ReportDue(epoch)
    /\ out' = Append(out, [kind |-> "log", epoch |-> epoch,
                           d_loss |-> Mean(disc_loss), g_loss |-> Mean(gen_loss),
                           after |-> nsteps])
    /\ num_images' = DefaultImages
    /\ pc' = "gd_noise"
    /\ UNCHANGED <<argVars, loopVars, lossVars, stepVars, ganVars, gd_noise,
                   generated_images, axs, cnt, gd_i, gd_j, histVars, probeVars>>

(***************************************************************************)
(* generate_and_display_images(generator, num_images)                      *)
(***************************************************************************)
\* the shape of np.random.randn(n, 100)
NoiseShape(n) == <<n, LatentDim>>

\* line 176: noise = np.random.randn(num_images, 100)
Display_Noise(Zs) ==
    /\ pc = "gd_noise"
    /\ \E z \in LatentBatches(Zs, num_images) : gd_noise' = z
    /\ pc' = "gd_predict"
    /\ UNCHANGED <<argVars, loopVars, lossVars, stepVars, ganVars, num_images,
                   generated_images, axs, cnt, gd_i, gd_j, out, histVars, probeVars>>

\* the report's generator call made in training mode: the running statistics
\* of the batch normalisation move
Display_Predict_TrainingMode ==
    /\ pc = "gd_predict"
    /\ ModelShape(GeneratorLayers, NoiseShape(Len(gd_noise))) # ShapeError
    /\ generated_images' =
          [k \in DOMAIN gd_noise |->
              DisplayRescale(GeneratorTrain(generator, gd_noise)[k])]
    /\ generator' = GeneratorAfterTrainCall(generator, gd_noise)
    /\ axs' = EmptyGrid
    /\ cnt' = 0 /\ gd_i' = 0 /\ gd_j' = 0
    /\ pc' = "gd_cell"
    /\ UNCHANGED <<argVars, loopVars, lossVars, stepVars, discriminator,
                   generator_optimizer, discriminator_optimizer, num_images,
                   gd_noise, out, histVars, probeVars>>

\* lines 177-181: predict, rescale for display, an empty 4x4 grid, cnt = 0
Display_Predict ==
    /\ pc = "gd_predict"
    /\ ModelShape(GeneratorLayers, NoiseShape(Len(gd_noise))) # ShapeError
    /\ generated_images' =
          [k \in DOMAIN gd_noise |->
              DisplayRescale(GeneratorPredict(generator, gd_noise)[k])]
    /\ axs' = EmptyGrid
    /\ cnt' = 0 /\ gd_i' = 0 /\ gd_j' = 0
    /\ pc' = "gd_cell"
    /\ UNCHANGED <<argVars, loopVars, lossVars, stepVars, ganVars, num_images,
                   gd_noise, out, histVars, probeVars>>

\* the loop body without its cnt += 1
Display_Cell_NoIncrement ==
    /\ pc = "gd_cell"
    /\ gd_i < GridSide
    /\ cnt < Len(generated_images)
    /\ axs' = [axs EXCEPT ![<<gd_i, gd_j>>] =
                 [shown |-> TRUE, sample |-> cnt,
                  height |-> ImageShape[1], width |-> ImageShape[2]]]
    /\ gd_j' = IF gd_j + 1 < GridSide THEN gd_j + 1 ELSE 0
    /\ gd_i' = IF gd_j + 1 < GridSide THEN gd_i ELSE gd_i + 1
    /\ UNCHANGED <<pc, argVars, loopVars, lossVars, stepVars, ganVars, num_images,
                   gd_noise, generated_images, cnt, out, histVars, probeVars>>

\* lines 182-186: one pass of the inner loop body: generated_images[cnt, :, :, 0],
\* an image of ImageSide x ImageSide, goes to cell (i, j), then cnt += 1.  The
\* grid records which sample each cell shows, not its pixels
Display_Cell ==
    /\ pc = "gd_cell"
    /\ gd_i < GridSide
    /\ cnt < Len(generated_images)
    /\ axs' = [axs EXCEPT ![<<gd_i, gd_j>>] =
                 [shown |-> TRUE, sample |-> cnt,
                  height |-> ImageShape[1], width |-> ImageShape[2]]]
    /\ cnt' = cnt + 1
    /\ gd_j' = IF gd_j + 1 < GridSide THEN gd_j + 1 ELSE 0
    /\ gd_i' = IF gd_j + 1 < GridSide THEN gd_i ELSE gd_i + 1
    /\ UNCHANGED <<pc, argVars, loopVars, lossVars, stepVars, ganVars, num_images,
                   gd_noise, generated_images, out, histVars, probeVars>>

\* the loop body when there is no sample for the cell: the cell is left blank
\* and the loop goes on
Display_IndexError_BlankCell ==
    /\ pc = "gd_cell"
    /\ gd_i < GridSide
    /\ cnt >= Len(generated_images)
    /\ cnt' = cnt + 1
    /\ gd_j' = IF gd_j + 1 < GridSide THEN gd_j + 1 ELSE 0
    /\ gd_i' = IF gd_j + 1 < GridSide THEN gd_i ELSE gd_i + 1
    /\ UNCHANGED <<pc, argVars, loopVars, lossVars, stepVars, ganVars, num_images,
                   gd_noise, generated_images, axs, out, histVars, probeVars>>

\* line 184 when cnt is not an index of generated_images: IndexError, which
\* nothing catches; the figure is never shown
Display_IndexError ==
    /\ pc = "gd_cell"
    /\ gd_i < GridSide
    /\ cnt >= Len(generated_images)
    /\ pc' = "raised"
    /\ UNCHANGED <<argVars, loopVars, lossVars, stepVars, ganVars, gdVars, out,
                   histVars, probeVars>>

\* line 187: plt.show(); the call returns and the iteration of train_gan ends
Display_Show ==
    /\ pc = "gd_cell"
    /\ gd_i >= GridSide
    /\ out' = Append(out, [kind |-> "grid", axs |-> axs,
                           requested |-> NoiseShape(Len(gd_noise)),
                           samples |-> Len(generated_images), after |-> nsteps])
    /\ num_images' = 0 /\ gd_noise' = None /\ generated_images' = None
    /\ axs' = EmptyGrid /\ cnt' = 0 /\ gd_i' = 0 /\ gd_j' = 0
    /\ IterationEnds
    /\ UNCHANGED <<argVars, X_train, stepVars, ganVars, histVars, probeVars>>

(***************************************************************************)
(* The training run.                                                       *)
(***************************************************************************)
\* what mnist.load_data() returns: a fixed array of images, here DatasetSize
\* images whose pixel values spread from 0 (the first) to PixelMax (the last)
MnistImages ==
    [k \in 1..DatasetSize |->
        IF DatasetSize = 1 THEN PixelMax
        ELSE ((k - 1) * PixelMax) \div (DatasetSize - 1)]

Datasets == {MnistImages}

Run(Raws, Zs) ==
    \/ TrainGan_Load(Raws)
    \/ TrainGan_SelectBatch
    \/ TrainGan_Return
    \/ TrainStep_Noise(Zs)
    \/ TrainStep_Generate
    \/ TrainStep_RealOutput
    \/ TrainStep_FakeOutput
    \/ TrainStep_DiscLoss
    \/ TrainStep_DiscApply
    \/ TrainStep_Regenerate
    \/ TrainStep_FakeOutput2
    \/ TrainStep_GenLoss
    \/ TrainStep_GenApply
    \/ TrainStep_Return
    \/ TrainGan_NoReport
    \/ TrainGan_Print
    \/ Display_Noise(Zs)
    \/ Display_Predict
    \/ Display_Cell
    \/ Display_Show

\* no call of audio_to_spectrogram is under way
AudioIdle ==
    a2s_pc = "idle" /\ mel = None /\ spectrogram_db = None /\ max_pad_len = 0

\* the probes of the pure functions are not in use
\* no call of generate_data is under way
GmmIdle == gmm_pc = "idle" /\ n_samples = 0 /\ blocks = <<>> /\ data = None

ProbesIdle == shp = NoProbe /\ px = NoPixels /\ AudioIdle /\ GmmIdle

Init == InitWith(0..MaxEpochs, 1..MaxBatch, InitKernels) /\ ProbesIdle
Next == Run(Datasets, LatentValues)
Spec == Init /\ [][Next]_vars

(***************************************************************************)
(* The long run: the same program on one image and one latent value, for   *)
(* step counts on either side of the report interval.                      *)
(***************************************************************************)
LongExtra == 1
MaxMels     == 2      \* rows (mel bands) of a spectrogram, at most
MaxFrames   == 3      \* columns (time frames) of a spectrogram, at most
MaxPadLen   == 3      \* max_pad_len, at most
MaxExtraImages == 2   \* num_images beyond the 16 cells of the grid, at most
MaxSamples  == 100    \* n_samples, at most
MantissaBits == 11    \* bits of the significand of the model's binary floats
LongEpochs == {0, 1, ReportInterval, ReportInterval + 1,
               2 * ReportInterval + LongExtra}

InitLong == InitWith(LongEpochs, 1..MaxBatch, {1}) /\ ProbesIdle
NextLong == Run({<<PixelMax>>}, {1})
SpecLong == InitLong /\ [][NextLong]_vars
\* one thread of control that runs each statement to completion
FairLong == SpecLong /\ WF_vars(NextLong)
FairSpec == Spec /\ WF_vars(Next)

(***************************************************************************)
(* The shape probe: gan = build_gan(generator, discriminator) called on a  *)
(* latent batch of shape (B, D), one layer at a time.                      *)
(***************************************************************************)
ProbeInputs ==
    {<<b, d>> : b \in 0..MaxShapeB,
                d \in (LatentDim - ShapeSpread)..(LatentDim + ShapeSpread)}

InitShape ==
    /\ InitWith({0}, {1}, {1})
    /\ \E s \in ProbeInputs :
          shp = [input |-> s, layer |-> 0, cur |-> s, generated |-> <<>>]
    /\ px = NoPixels /\ AudioIdle /\ GmmIdle

\* the next layer of the Sequential takes the current tensor; a shape mismatch
\* raises and ends the call
Shape_Layer ==
    /\ pc = "load"
    /\ shp.input # <<>>
    /\ shp.cur # ShapeError
    /\ shp.layer < Len(GanLayers)
    /\ LET s == LayerShape(GanLayers[shp.layer + 1], shp.cur)
       IN  shp' = [shp EXCEPT
                     !.layer = @ + 1,
                     !.cur = s,
                     !.generated = IF shp.layer + 1 = Len(GeneratorLayers) /\ s # ShapeError
                                   THEN s ELSE @]
    /\ UNCHANGED <<pc, argVars, loopVars, lossVars, stepVars, ganVars, gdVars,
                   out, histVars, px, audioVars, gmmVars>>

NextShape == Shape_Layer
SpecShape == InitShape /\ [][NextShape]_vars

(***************************************************************************)
(* Properties of train_step.                                               *)
(***************************************************************************)
ApplyCalls == {"discriminator_optimizer.apply_gradients",
               "generator_optimizer.apply_gradients"}

CalledBefore(c, i) == \E j \in 1..(i - 1) : calls[j] = c

Called(c) == \E j \in DOMAIN calls : calls[j] = c

\* C1: in every train_step the discriminator scores the real batch and the
\* generated batch before either optimizer applies an update: no
\* apply_gradients call of the step comes before either of the two scorings,
\* and a step that has run to its end has made both scorings and both updates.
C1_ScoredBeforeAnyUpdate ==
    /\ \A i \in DOMAIN calls :
          calls[i] \in ApplyCalls =>
             /\ CalledBefore("discriminator(real_images)", i)
             /\ CalledBefore("discriminator(fake_images)", i)
    /\ pc = "ts_return" =>
          /\ Called("discriminator(real_images)")
          /\ Called("discriminator(fake_images)")
          /\ \A c \in ApplyCalls : Called(c)

C1_Witness ==
    /\ pc = "ts_return"
    /\ \A c \in ApplyCalls : Called(c)
    /\ CalledBefore("discriminator(fake_images)", 5)

\* C2 as stated: after the discriminator part of the step (lines 116-128) the
\* generator and its optimizer are what they were before the step; nothing
\* but the discriminator and its optimizer has changed.
C2_OnlyDiscriminatorChanged ==
    mid.taken =>
       /\ mid.state.generator = pre.state.generator
       /\ mid.state.generator_optimizer = pre.state.generator_optimizer

\* C2, amended: after the discriminator part of the step the generator's
\* trainable parameters and the generator's optimizer are what they were
\* before the step; besides the discriminator and its optimizer, what has
\* changed is the generator's batch-normalization running statistic, moved by
\* the one training-mode forward pass of line 117.
C2_GeneratorTrainablesKept ==
    mid.taken =>
       /\ mid.state.generator.kernel = pre.state.generator.kernel
       /\ mid.state.generator_optimizer = pre.state.generator_optimizer
       /\ mid.state.generator.moving_mean =
             MovingMean(pre.state.generator.moving_mean,
                        Hidden(pre.state.generator, noise))

C2_Witness ==
    /\ pc = "ts_regenerate"
    /\ mid.taken
    /\ mid.state.discriminator # pre.state.discriminator
    /\ mid.state.discriminator_optimizer # pre.state.discriminator_optimizer
    /\ mid.state.generator.moving_mean # pre.state.generator.moving_mean

\* C3: the generator part of the step (lines 131-137) leaves the discriminator
\* and the discriminator's optimizer as they were immediately before it, at
\* each of its statements and at its end.
C3_GeneratorPartKeepsDiscriminator ==
    mid.taken =>
       /\ discriminator = mid.state.discriminator
       /\ discriminator_optimizer = mid.state.discriminator_optimizer

C3_Witness ==
    /\ pc = "ts_return"
    /\ mid.taken
    /\ generator.kernel # mid.state.generator.kernel
    /\ generator_optimizer # mid.state.generator_optimizer

\* C4 as stated: a step whose generator part is skipped (the state once line
\* 128 has run) leaves the discriminator's parameters equal to their values
\* before the step.
C4_DiscriminatorAsBeforeStep ==
    pc = "ts_regenerate" => discriminator = pre.state.discriminator

\* C4, amended: a step whose generator part is skipped leaves the
\* discriminator's parameters one update of its optimizer away from their
\* values before the step (the update of line 128, down the gradient of
\* disc_loss); what such a step leaves at their values before the step are
\* the generator's trainable parameters and the generator's optimizer.
C4_OneDiscriminatorUpdate ==
    pc = "ts_regenerate" =>
       LET g == DiscGradient(real_images, real_output, fake_images, fake_output)
           m == Half(pre.state.discriminator_optimizer.m) + g
       IN  /\ discriminator_optimizer =
                 [iterations |-> pre.state.discriminator_optimizer.iterations + 1,
                  m |-> m]
           /\ discriminator.kernel = pre.state.discriminator.kernel - Sign(m)
           /\ generator.kernel = pre.state.generator.kernel
           /\ generator_optimizer = pre.state.generator_optimizer

C4_Witness ==
    /\ pc = "ts_regenerate"
    /\ discriminator # pre.state.discriminator
    /\ generator.kernel = pre.state.generator.kernel

(***************************************************************************)
(* Properties of train_gan and generate_and_display_images.                *)
(***************************************************************************)
\* C5: for every step count and batch size train_gan terminates, and when it
\* has returned train_step has been called exactly `epochs` times (never more
\* on the way): no early exit, no retry, no extra iteration.
C5_TerminatesAfterEpochsSteps ==
    /\ [](nsteps <= epochs)
    /\ [](pc = "done" => nsteps = epochs)
    /\ <>(pc = "done")

C5_Witness ==
    /\ pc = "done"
    /\ epochs > ReportInterval
    /\ nsteps = epochs

DisplayPcs == {"gd_noise", "gd_predict", "gd_cell"}

LogEpochs == {out[k].epoch : k \in {n \in DOMAIN out : out[n].kind = "log"}}

\* C6: a report is one loss line holding both losses followed by one grid; the
\* step index e gets a report iff e mod 1000 = 0; the report of e comes when
\* exactly e + 1 training steps have been started and none is running; a run
\* of `epochs` steps has emitted ceil(epochs / 1000) reports when it returns.
C6_ReportAtInterval ==
    /\ \A k \in DOMAIN out :
          /\ out[k].kind = (IF k % 2 = 1 THEN "log" ELSE "grid")
          /\ out[k].kind = "log" =>
                /\ out[k].epoch % 1000 = 0
                /\ out[k].after = out[k].epoch + 1
                /\ {"d_loss", "g_loss"} \subseteq DOMAIN out[k]
          /\ out[k].kind = "grid" => out[k].after = out[k - 1].after
    /\ pc \in DisplayPcs =>
          /\ ~pre.taken
          /\ nsteps = epoch + 1
          /\ out[Len(out)] = [kind |-> "log", epoch |-> epoch,
                              d_loss |-> Mean(disc_loss), g_loss |-> Mean(gen_loss),
                              after |-> epoch + 1]
    /\ pc \in {"for", "done"} =>
          /\ LogEpochs = {e \in 0..(epoch - 1) : e % 1000 = 0}
          /\ Len(out) = 2 * Cardinality(LogEpochs)
    /\ pc = "done" => Len(out) = 2 * ((epochs + 999) \div 1000)

C6_Witness ==
    /\ pc = "done"
    /\ epochs > 2 * ReportInterval
    /\ Len(out) = 6
    /\ out[5].epoch = 2 * ReportInterval

\* C9: generate_and_display_images with num_images = 16 asks for one latent
\* batch of shape (16, 100), gets 16 samples, and shows sample 4*i + j in cell
\* (i, j) as a 28 x 28 image, each of the 16 samples in exactly one cell.
C9_SixteenSamplesOnceEach ==
    /\ pc \in {"gd_predict", "gd_cell"} => NoiseShape(Len(gd_noise)) = <<16, 100>>
    /\ pc = "gd_cell" =>
          /\ Len(generated_images) = 16
          /\ cnt = 4 * gd_i + gd_j
          /\ \A c \in Cells :
                /\ axs[c].shown <=> 4 * c[1] + c[2] < cnt
                /\ axs[c].shown =>
                      /\ axs[c].sample = 4 * c[1] + c[2]
                      /\ axs[c].height = 28 /\ axs[c].width = 28
    /\ \A k \in DOMAIN out :
          out[k].kind = "grid" =>
             /\ out[k].requested = <<16, 100>>
             /\ out[k].samples = 16
             /\ \A c \in Cells :
                   /\ out[k].axs[c].shown
                   /\ out[k].axs[c].sample = 4 * c[1] + c[2]
             /\ \A n \in 0..15 :
                   Cardinality({c \in Cells : out[k].axs[c].sample = n}) = 1

C9_Witness ==
    /\ Len(out) = 2
    /\ out[2].kind = "grid"
    /\ out[2].axs[<<3, 3>>].shown
    /\ out[2].axs[<<3, 3>>].sample = 15

StepPcs == {"ts_noise", "ts_generate", "ts_real_output", "ts_fake_output",
            "ts_disc_loss", "ts_disc_apply", "ts_regenerate", "ts_fake_output2",
            "ts_gen_loss", "ts_gen_apply", "ts_return"}

\* C10: in every iteration the real batch is batch_size samples picked by
\* batch_size indices in 0..N-1 (repeats allowed), the dataset stays what the
\* load made it, and the latent batch of train_step is batch_size rows too.
C10_BatchOfBatchSize ==
    /\ pc # "load" =>
          X_train = [k \in 1..DatasetSize |-> Rescale(MnistImages[k])]
    /\ pc \in StepPcs =>
          /\ Len(idx) = batch_size
          /\ \A k \in DOMAIN idx : idx[k] \in 0..(Len(X_train) - 1)
          /\ Len(real_images) = batch_size
          /\ \A k \in DOMAIN idx : real_images[k] = X_train[idx[k] + 1]
    /\ pc \in StepPcs \ {"ts_noise", "ts_return"} =>
          /\ Len(noise) = batch_size
          /\ Len(noise) = Len(real_images)

C10_Witness ==
    /\ pc = "ts_generate"
    /\ batch_size >= 2
    /\ idx[1] = idx[2]
    /\ Len(noise) = batch_size

(***************************************************************************)
(* Properties of the networks' shapes.                                     *)
(***************************************************************************)
\* the call of the generator on the probe's input has ended
GeneratorCalled == shp.cur = ShapeError \/ shp.layer >= Len(GeneratorLayers)

\* C8 as stated: for any batch size B and any latent dimension D the generator
\* called on a batch of shape (B, D) returns a batch of shape (B, 28, 28, 1).
C8_AnyLatentDimension ==
    GeneratorCalled => shp.generated = <<shp.input[1], 28, 28, 1>>

\* C8, amended: for any batch size B the generator called on a batch of shape
\* (B, 100) returns a batch of shape (B, 28, 28, 1); called on a batch of
\* shape (B, D) with D other than 100 it returns nothing: its first layer
\* raises a shape mismatch.
C8_LatentDimensionHundred ==
    GeneratorCalled =>
       IF shp.input[2] = 100
       THEN shp.generated = <<shp.input[1], 28, 28, 1>>
       ELSE shp.cur = ShapeError /\ shp.layer = 1 /\ shp.generated = <<>>

C8_Witness ==
    /\ shp.input[2] = 100
    /\ shp.input[1] >= 2
    /\ shp.layer = Len(GeneratorLayers)
    /\ shp.generated = <<shp.input[1], 28, 28, 1>>

(***************************************************************************)
(* Properties of the losses.                                               *)
(***************************************************************************)
ReturnedPcs == {"if_report"} \cup DisplayPcs

\* C11 as stated: train_step returns two values, the discriminator loss and
\* the generator loss, and each is a scalar.
C11_ScalarLosses ==
    pc \in ReturnedPcs =>
       /\ ShapeOf(disc_loss) = <<>>
       /\ ShapeOf(gen_loss) = <<>>

\* C11, amended: train_step returns two values, the discriminator loss and
\* the generator loss, and each is a vector of batch_size per-sample losses
\* (binary_crossentropy averages over the last axis only); train_gan makes
\* one number of each with np.mean when it prints them.
C11_PerSampleLosses ==
    /\ LossShape(batch_size) = <<batch_size>>
    /\ pc \in ReturnedPcs =>
          /\ ShapeOf(disc_loss) = LossShape(batch_size)
          /\ ShapeOf(gen_loss) = LossShape(batch_size)
    /\ \A k \in DOMAIN out :
          out[k].kind = "log" => out[k].d_loss \in Int /\ out[k].g_loss \in Int

C11_Witness ==
    /\ pc = "if_report"
    /\ batch_size >= 2
    /\ Len(disc_loss) = batch_size
    /\ Len(gen_loss) = batch_size

(***************************************************************************)
(* C12: the latent draws of one training step.                             *)
(***************************************************************************)
CountCalls(c) == Cardinality({i \in DOMAIN calls : calls[i] = c})

AfterRegenerate == {"ts_fake_output2", "ts_gen_loss", "ts_gen_apply", "ts_return"}

\* C12 as stated: a training step makes two latent draws, one for the
\* discriminator part and a fresh one for the generator part.
C12_TwoLatentDraws ==
    pc = "ts_return" => CountCalls("normal") = 2

\* C12, amended: a training step makes one latent draw of batch_size rows and
\* runs the generator on it twice.  The batch, once drawn, stays what it is
\* until the step returns, and the generated batch the generator part scores
\* is the generator (as it is after the discriminator update) applied to that
\* same batch.
C12_OneLatentDraw ==
    /\ [](pc \in StepPcs \ {"ts_noise"} =>
             CountCalls("normal") = 1 /\ Len(noise) = batch_size)
    /\ [](pc \in AfterRegenerate =>
             /\ CountCalls("generator(noise)") = 2
             /\ fake_images = GeneratorTrain(mid.state.generator, noise))
    /\ [][(pc \in StepPcs \ {"ts_noise", "ts_return"}) => noise' = noise]_vars

C12_Witness ==
    /\ pc = "ts_return" /\ batch_size >= 2
    /\ CountCalls("generator(noise)") = 2
    /\ mid.state.discriminator # pre.state.discriminator

(***************************************************************************)
(* C13: the labels of the two losses.                                      *)
(***************************************************************************)
AfterDiscLoss == {"ts_disc_apply", "ts_regenerate"} \cup AfterRegenerate

AfterGenLoss == {"ts_gen_apply", "ts_return"}

\* C13: the discriminator loss of a step is, sample by sample, the cross-entropy
\* of the real batch's score against label 1 plus the cross-entropy of the
\* score of the step's first generated batch against label 0, both scores
\* being those of the discriminator as the step found it; the generator loss
\* is the cross-entropy of the score of a generated batch against label 1.
\* With scores s in units of 1/2 the cross-entropy against 1 is 2 - s and the
\* cross-entropy against 0 is s.
C13_LossLabels ==
    /\ pc \in {"ts_disc_apply", "ts_regenerate"} =>
          disc_loss = [k \in 1..batch_size |->
                         (2 - real_output[k]) + fake_output[k]]
    /\ pc \in AfterDiscLoss =>
          LET first_fake == GeneratorTrain(pre.state.generator, noise)
              s_real == Discriminate(pre.state.discriminator, real_images)
              s_fake == Discriminate(pre.state.discriminator, first_fake)
          IN  disc_loss = [k \in 1..batch_size |-> (2 - s_real[k]) + s_fake[k]]
    /\ pc \in AfterGenLoss =>
          gen_loss = [k \in 1..batch_size |-> 2 - fake_output[k]]

C13_Witness ==
    /\ pc = "ts_return"
    /\ \E k \in DOMAIN disc_loss : real_output[k] = 2 /\ disc_loss[k] = 0
    /\ \E k \in DOMAIN gen_loss : fake_output[k] < 2 /\ gen_loss[k] > 0

(***************************************************************************)
(* C14: the two optimizers.                                                *)
(***************************************************************************)
BeforeDiscApply == {"ts_generate", "ts_real_output", "ts_fake_output",
                    "ts_disc_loss", "ts_disc_apply"}

BetweenApplies == {"ts_regenerate", "ts_fake_output2", "ts_gen_loss",
                   "ts_gen_apply"}

\* the training steps that have run to their end
CompletedSteps == IF pc \in BeforeDiscApply \cup BetweenApplies
                  THEN nsteps - 1 ELSE nsteps

\* what one apply_gradients call makes of an optimizer: one more update
OneUpdate(opt_before, opt_after) ==
    opt_after.iterations = opt_before.iterations + 1

\* one step of the program, as far as the optimizers go: a step that changes
\* discriminator_optimizer is one update of it, at line 128, and leaves the
\* generator's trainable kernel and generator_optimizer alone; a step that
\* changes generator_optimizer is one update of it, at line 137, and leaves
\* the discriminator and discriminator_optimizer alone; a kernel changes only
\* in an update of its own optimizer
OwnNetworkOnly ==
    /\ discriminator_optimizer' # discriminator_optimizer =>
          /\ pc = "ts_disc_apply"
          /\ OneUpdate(discriminator_optimizer, discriminator_optimizer')
          /\ generator'.kernel = generator.kernel
          /\ generator_optimizer' = generator_optimizer
    /\ generator_optimizer' # generator_optimizer =>
          /\ pc = "ts_gen_apply"
          /\ OneUpdate(generator_optimizer, generator_optimizer')
          /\ discriminator' = discriminator
          /\ discriminator_optimizer' = discriminator_optimizer
    /\ discriminator' # discriminator =>
          OneUpdate(discriminator_optimizer, discriminator_optimizer')
    /\ generator'.kernel # generator.kernel =>
          OneUpdate(generator_optimizer, generator_optimizer')

\* C14: each optimizer updates its own network only, and after k completed
\* training steps each has applied exactly k updates, the discriminator's
\* first and the generator's second within a step.
C14_OptimizersPaired ==
    /\ [](generator_optimizer.iterations = CompletedSteps)
    /\ [](discriminator_optimizer.iterations =
            IF pc \in BetweenApplies THEN CompletedSteps + 1 ELSE CompletedSteps)
    /\ [][OwnNetworkOnly]_vars

C14_Witness ==
    /\ pc = "done" /\ nsteps = 2
    /\ generator_optimizer.iterations = 2
    /\ discriminator_optimizer.iterations = 2
    /\ generator_optimizer.m # discriminator_optimizer.m

(***************************************************************************)
(* C15: a report and the training state.                                   *)
(***************************************************************************)
\* the program is in a report: at the print of line 171 or inside
\* generate_and_display_images
InReport == (pc = "if_report" /\ ReportDue(epoch)) \/ pc \in DisplayPcs

\* C15: no step of a report (the loss line, the latent draw, the inference
\* call, the cells of the grid, the show) changes the generator's kernel, the
\* generator's batch-normalisation running statistics, the discriminator or
\* either optimizer: the training state after a report is the training state
\* before it.
C15_ReportKeepsTrainingState ==
    [][InReport => UNCHANGED ganVars]_vars

C15_Witness ==
    /\ Len(out) = 2 /\ out[2].kind = "grid"
    /\ generator.moving_mean # 0
    /\ generator_optimizer.iterations = 1
    /\ discriminator_optimizer.iterations = 1

(***************************************************************************)
(* C17: the dataset load, and a load that raises.                          *)
(***************************************************************************)
\* the training run in an environment where mnist.load_data() may raise
NextLoad == Next \/ TrainGan_LoadRaises

SpecLoad == Init /\ [][NextLoad]_vars

\* X_train as lines 157-159 leave it
LoadedDataset == [k \in DOMAIN MnistImages |-> Rescale(MnistImages[k])]

\* one step of the program, as far as the dataset goes: X_train is assigned
\* by the load only, the load is never come back to, a raising load changes
\* nothing but the position of the program, and nothing follows it
LoadStep ==
    /\ pc # "load" => X_train' = X_train /\ pc' # "load"
    /\ pc = "load" => pc' \in {"for", "raised"}
    /\ pc' = "raised" => pc = "load" /\ UNCHANGED <<ganVars, X_train, out, nsteps>>
    /\ pc # "raised"

\* C17: the dataset is loaded once, before the first training step; a load
\* that raises ends train_gan with no training step made, no update applied,
\* no report written and the networks and optimizers as they were.
C17_LoadOnceOrRaise ==
    /\ [](pc \notin {"load", "raised"} => X_train = LoadedDataset)
    /\ [](pc \in {"load", "raised"} =>
            /\ X_train = None /\ nsteps = 0 /\ out = <<>>
            /\ generator_optimizer.iterations = 0
            /\ discriminator_optimizer.iterations = 0)
    /\ [][LoadStep]_vars

C17_Witness ==
    /\ pc = "raised" /\ epochs > 0
    /\ X_train = None /\ nsteps = 0 /\ out = <<>>

(***************************************************************************)
(* C20: which discriminator each loss is computed against.                 *)
(***************************************************************************)
\* the per-sample generator loss a discriminator disc gives the generator gen
\* on the latent batch z
GenLossAgainst(disc, gen, z) ==
    LET s == Discriminate(disc, GeneratorTrain(gen, z))
    IN  [k \in DOMAIN z |-> 2 - s[k]]

\* the per-sample discriminator loss of disc on the real batch x and on what
\* gen makes of the latent batch z
DiscLossAgainst(disc, gen, x, z) ==
    LET s_real == Discriminate(disc, x)
        s_fake == Discriminate(disc, GeneratorTrain(gen, z))
    IN  [k \in DOMAIN x |-> (2 - s_real[k]) + s_fake[k]]

\* C20: the generator loss of a step is computed against the discriminator as
\* it is after the step's discriminator update, the discriminator loss against
\* the discriminator as it was before that update, and both with the
\* generator's parameters as they were before the generator update.
C20_GenLossAgainstUpdatedDiscriminator ==
    /\ pc \in AfterGenLoss =>
          gen_loss = GenLossAgainst(mid.state.discriminator,
                                    pre.state.generator, noise)
    /\ pc \in AfterDiscLoss =>
          disc_loss = DiscLossAgainst(pre.state.discriminator,
                                      pre.state.generator, real_images, noise)
    /\ pc \in BetweenApplies =>
          /\ mid.state.discriminator = discriminator
          /\ pre.state.generator.kernel = generator.kernel

C20_Witness ==
    /\ pc = "ts_return"
    /\ mid.state.discriminator # pre.state.discriminator
    /\ pre.state.generator.kernel # generator.kernel
    /\ gen_loss # GenLossAgainst(pre.state.discriminator,
                                 pre.state.generator, noise)

(***************************************************************************)
(* C18: the two rescalings of pixel values, each applied to every value    *)
(* it can be given.                                                        *)
(***************************************************************************)
\* the values of an 8-bit pixel
Pixels == 0..PixelMax

\* the values of the generator's tanh output, in units of 1/255
TanhRange == (-PixelMax)..PixelMax

\* line 158 is given two pixels of the dataset, line 178 one generated value
PixelInputs ==
    {[fn |-> "rescale", arg |-> <<p, q>>, done |-> FALSE, result |-> <<>>] :
        p \in Pixels, q \in Pixels}
    \cup
    {[fn |-> "display", arg |-> <<g>>, done |-> FALSE, result |-> <<>>] :
        g \in TanhRange}

InitPixel ==
    /\ InitWith({0}, {1}, {1})
    /\ shp = NoProbe /\ AudioIdle /\ GmmIdle
    /\ px \in PixelInputs

\* line 158: X_train = (X_train / 127.5) - 1.0, elementwise
Pixel_Rescale ==
    /\ px.fn = "rescale" /\ ~px.done
    /\ px' = [px EXCEPT !.done = TRUE,
                        !.result = [k \in DOMAIN px.arg |-> Rescale(px.arg[k])]]
    /\ UNCHANGED <<pc, argVars, loopVars, lossVars, stepVars, ganVars, gdVars,
                   out, histVars, shp, audioVars, gmmVars>>

\* line 178: generated_images = 0.5 * generated_images + 0.5, elementwise
Pixel_Display ==
    /\ px.fn = "display" /\ ~px.done
    /\ px' = [px EXCEPT !.done = TRUE,
                        !.result = [k \in DOMAIN px.arg |->
                                      DisplayRescale(px.arg[k])]]
    /\ UNCHANGED <<pc, argVars, loopVars, lossVars, stepVars, ganVars, gdVars,
                   out, histVars, shp, audioVars, gmmVars>>

NextPixel == Pixel_Rescale \/ Pixel_Display

SpecPixel == InitPixel /\ [][NextPixel]_vars

\* C18: the preprocessing sends every pixel value p of 0..255 to p/127.5 - 1,
\* a value of [-1, 1], 0 to -1 and 255 to 1, and a larger pixel to a larger
\* value; the display rescale sends every g of [-1, 1] to 0.5 g + 0.5, a
\* value of [0, 1].  Rescaled values are in units of 1/255 (p/127.5 - 1 is
\* (2p - 255)/255), displayed values in units of 1/510 (0.5 g + 0.5 is
\* (255 g + 255)/510).
C18_RescaleRanges ==
    /\ (px.fn = "rescale" /\ px.done) =>
          LET p == px.arg[1]
              q == px.arg[2]
          IN  /\ px.result[1] = 2 * p - PixelMax
              /\ px.result[1] >= -PixelMax /\ px.result[1] <= PixelMax
              /\ p = 0 => px.result[1] = -PixelMax
              /\ p = PixelMax => px.result[1] = PixelMax
              /\ p < q => px.result[1] < px.result[2]
    /\ (px.fn = "display" /\ px.done) =>
          /\ px.result[1] = px.arg[1] + PixelMax
          /\ px.result[1] >= 0 /\ px.result[1] <= 2 * PixelMax

C18_Witness ==
    /\ px.fn = "rescale" /\ px.done
    /\ px.arg = <<0, PixelMax>>
    /\ px.result = <<-PixelMax, PixelMax>>

(***************************************************************************)
(* C19: audio_to_spectrogram(file_path, max_pad_len) of part_001.  A       *)
(* spectrogram is a sequence of rows (mel bands), each a sequence of       *)
(* columns (time frames).                                                  *)
(***************************************************************************)
\* the values librosa.power_to_db(ref=np.max) gives: 0 dB at the maximum,
\* negative below it
DbValues == {-1, 0}

\* the spectrograms librosa makes of the files the model reads
Spectrograms ==
    UNION {SeqsOf(SeqsOf(DbValues, w), r) : w \in 0..MaxFrames, r \in 1..MaxMels}

\* spectrogram_db.shape[1]
Frames(m) == Len(m[1])

\* spectrogram_db[:, :n]
FirstColumns(m, n) == [r \in DOMAIN m |-> SubSeq(m[r], 1, n)]

Zeros(n) == [c \in 1..n |-> 0]

\* constant padding at the front of every row, none at the end
NpPad_Front(m, before, after) ==
    [r \in DOMAIN m |-> Zeros(after) \o m[r] \o Zeros(before)]

\* np.pad(m, pad_width=((0, 0), (before, after)), mode='constant')
NpPad(m, before, after) ==
    [r \in DOMAIN m |-> Zeros(before) \o m[r] \o Zeros(after)]

InitPad ==
    /\ InitWith({0}, {1}, {1})
    /\ shp = NoProbe /\ px = NoPixels /\ GmmIdle
    /\ a2s_pc = "a2s_load"
    /\ max_pad_len \in 0..MaxPadLen
    /\ mel = None /\ spectrogram_db = None

\* lines 140-142: load the file, mel spectrogram, power to dB
A2S_Spectrogram ==
    /\ a2s_pc = "a2s_load"
    /\ \E m \in Spectrograms : mel' = m /\ spectrogram_db' = m
    /\ a2s_pc' = "a2s_if"
    /\ UNCHANGED <<pc, argVars, loopVars, lossVars, stepVars, ganVars, gdVars,
                   out, histVars, shp, px, max_pad_len, gmmVars>>

\* lines 145-146: more columns than max_pad_len, keep the first max_pad_len
A2S_Truncate ==
    /\ a2s_pc = "a2s_if"
    /\ Frames(spectrogram_db) > max_pad_len
    /\ spectrogram_db' = FirstColumns(spectrogram_db, max_pad_len)
    /\ a2s_pc' = "a2s_return"
    /\ UNCHANGED <<pc, argVars, loopVars, lossVars, stepVars, ganVars, gdVars,
                   out, histVars, shp, px, mel, max_pad_len, gmmVars>>

\* lines 147-149: else, pad_width columns of zeros after the last column
A2S_Pad ==
    /\ a2s_pc = "a2s_if"
    /\ ~(Frames(spectrogram_db) > max_pad_len)
    /\ LET pad_width == max_pad_len - Frames(spectrogram_db)
       IN  spectrogram_db' = NpPad(spectrogram_db, 0, pad_width)
    /\ a2s_pc' = "a2s_return"
    /\ UNCHANGED <<pc, argVars, loopVars, lossVars, stepVars, ganVars, gdVars,
                   out, histVars, shp, px, mel, max_pad_len, gmmVars>>

NextPad == A2S_Spectrogram \/ A2S_Truncate \/ A2S_Pad

SpecPad == InitPad /\ [][NextPad]_vars

\* C19: what audio_to_spectrogram returns has the rows of the spectrogram it
\* computed and exactly max_pad_len columns; each row is the first max_pad_len
\* columns of the computed row when the spectrogram has more than max_pad_len
\* columns, and otherwise the whole computed row followed by zeros.
C19_PadOrTruncate ==
    a2s_pc = "a2s_return" =>
       /\ Len(spectrogram_db) = Len(mel)
       /\ \A r \in DOMAIN mel :
             /\ Len(spectrogram_db[r]) = max_pad_len
             /\ \A c \in 1..max_pad_len :
                   spectrogram_db[r][c] = IF c <= Frames(mel) THEN mel[r][c] ELSE 0

C19_Witness ==
    /\ a2s_pc = "a2s_return"
    /\ Len(mel) = 2 /\ Frames(mel) = 1 /\ max_pad_len = 3
    /\ mel[1][1] = -1
    /\ spectrogram_db[1] = <<-1, 0, 0>>

(***************************************************************************)
(* C16: values that are not finite.                                        *)
(***************************************************************************)
\* the training run in which a forward pass of the generator may overflow
InitNaN == InitWith(0..MaxEpochs, 1..MaxBatch, {1}) /\ ProbesIdle

NextNaN == Next \/ TrainStep_Generate_NonFinite

SpecNaN == InitNaN /\ [][NextNaN]_vars

AllNaN(v) == \A k \in DOMAIN v : v[k] = NaN

\* one step of the program, as far as values that are not finite go: a kernel,
\* a running mean or an optimizer moment that is NaN is NaN after the step
CorruptionStays ==
    /\ generator.kernel = NaN => generator'.kernel = NaN
    /\ generator.moving_mean = NaN => generator'.moving_mean = NaN
    /\ discriminator.kernel = NaN => discriminator'.kernel = NaN
    /\ generator_optimizer.m = NaN => generator_optimizer'.m = NaN
    /\ discriminator_optimizer.m = NaN => discriminator_optimizer'.m = NaN

\* C16: nothing looks at whether a value is finite.  A training step whose
\* losses are NaN makes both apply_gradients calls all the same; parameters
\* that are NaN stay NaN, and a step that starts with a NaN discriminator has
\* both losses NaN in every sample; the loop does not stop before range(epochs)
\* is exhausted and has then made exactly `epochs` training steps, each
\* optimizer one update per step made.
C16_NonFiniteNotHandled ==
    /\ [](pc = "ts_return" => Called("discriminator_optimizer.apply_gradients")
                              /\ Called("generator_optimizer.apply_gradients"))
    /\ [](generator_optimizer.iterations = CompletedSteps)
    /\ [](discriminator_optimizer.iterations =
            IF pc \in BetweenApplies THEN CompletedSteps + 1 ELSE CompletedSteps)
    /\ []((pc \in AfterGenLoss /\ pre.state.discriminator.kernel = NaN) =>
             AllNaN(disc_loss) /\ AllNaN(gen_loss))
    /\ [](nsteps <= epochs /\ (pc = "done" => nsteps = epochs))
    /\ [](pc # "done" => ENABLED NextNaN)
    /\ [][CorruptionStays]_vars

C16_Witness ==
    /\ pc = "done" /\ nsteps = 2 /\ epochs = 2
    /\ generator.kernel = NaN /\ discriminator.kernel = NaN
    /\ generator_optimizer.iterations = 2
    /\ discriminator_optimizer.iterations = 2
    /\ Len(out) = 2 /\ out[1].d_loss = NaN /\ out[1].g_loss = NaN

(***************************************************************************)
(* C21: generate_and_display_images(generator, num_images) called with a   *)
(* num_images of its caller's choice.                                      *)
(***************************************************************************)
\* the numbers of images the model asks for
ImageCounts == 1..(DefaultImages + MaxExtraImages)

\* the call generate_and_display_images(generator, n), made on the networks
\* as built
InitGrid ==
    /\ pc = "gd_noise"
    /\ num_images \in ImageCounts
    /\ Constructed({0}, {1}, InitKernels)
    /\ ProbesIdle

NextGrid ==
    \/ Display_Noise(LatentValues)
    \/ Display_Predict
    \/ Display_Cell
    \/ Display_IndexError
    \/ Display_Show

SpecGrid == InitGrid /\ [][NextGrid]_vars

\* the position of cell (i, j) in the order the loops visit the cells
CellIndex(c) == GridSide * c[1] + c[2]

\* the grid in which exactly the first n cells show a sample, cell number k
\* showing sample k
FirstCellsShown(grid, n) ==
    \A c \in Cells :
       /\ grid[c].shown <=> CellIndex(c) < n
       /\ grid[c].shown => grid[c].sample = CellIndex(c)

\* C21: for a num_images of at least 1 the grid is always GridSide x GridSide.
\* With 16 samples or more the figure is shown with samples 0..15 in its 16
\* cells, whatever was generated beyond them appearing nowhere, and no error
\* is raised.  With fewer than 16 the cells 0..num_images-1 get their samples,
\* the read of sample num_images raises, and no figure is ever shown.
C21_FixedGrid ==
    /\ DOMAIN axs = Cells
    /\ pc = "gd_cell" =>
          /\ Len(generated_images) = num_images
          /\ cnt <= Len(generated_images) /\ cnt <= GridSide * GridSide
          /\ FirstCellsShown(axs, cnt)
    /\ pc = "raised" =>
          /\ num_images < GridSide * GridSide
          /\ cnt = num_images
          /\ FirstCellsShown(axs, num_images)
          /\ out = <<>>
    /\ out # <<>> =>
          /\ Len(out) = 1 /\ out[1].kind = "grid"
          /\ out[1].samples >= GridSide * GridSide
          /\ out[1].requested = NoiseShape(out[1].samples)
          /\ FirstCellsShown(out[1].axs, GridSide * GridSide)
    /\ pc \in DisplayPcs => ENABLED NextGrid

C21_Witness ==
    /\ pc = "raised"
    /\ num_images = 5 /\ cnt = 5
    /\ axs[<<1, 0>>].shown /\ axs[<<1, 0>>].sample = 4
    /\ ~axs[<<1, 1>>].shown

(***************************************************************************)
(* C22: generate_data(n_samples) of part_001.  The number of rows of a     *)
(* component is int(weights[i] * n_samples), with weights[i] the float     *)
(* 1/3: the model computes it in binary floating point, round to nearest,  *)
(* ties to even, as the interpreter does, with a significand of            *)
(* MantissaBits bits in place of the 53 of a double.  A float is           *)
(* [m, e], the number m * 2^e, with 2^(MantissaBits-1) <= m <             *)
(* 2^MantissaBits, or m = 0.                                               *)
(***************************************************************************)
\* range(3), the three mixture components
NumComponents == 3

Pow2(k) == 2^k

\* the positive rational N / D as (N' / D') * 2^e with N' / D' in
\* [2^(MantissaBits-1), 2^MantissaBits)
RECURSIVE Normalize(_, _, _)
Normalize(N, D, e) ==
    IF N >= Pow2(MantissaBits) * D THEN Normalize(N, 2 * D, e + 1)
    ELSE IF N < Pow2(MantissaBits - 1) * D THEN Normalize(2 * N, D, e - 1)
    ELSE [N |-> N, D |-> D, e |-> e]

\* rounding toward zero
RoundDown(N, D) == N \div D

\* N / D rounded to the nearest integer, a tie to the even one
RoundHalfEven(N, D) ==
    LET q == N \div D
        r == N % D
    IN  IF 2 * r < D THEN q
        ELSE IF 2 * r > D THEN q + 1
        ELSE IF q % 2 = 0 THEN q ELSE q + 1

\* the float nearest to the rational N / D >= 0
FloatOf(N, D) ==
    IF N = 0 THEN [m |-> 0, e |-> 0]
    ELSE LET s == Normalize(N, D, 0)
             m == RoundHalfEven(s.N, s.D)
         IN  IF m = Pow2(MantissaBits)
             THEN [m |-> Pow2(MantissaBits - 1), e |-> s.e + 1]
             ELSE [m |-> m, e |-> s.e]

\* a * n for a float a and an int n >= 0 (n is converted without error)
FloatTimesInt(a, n) ==
    IF a.e >= 0 THEN FloatOf(a.m * n * Pow2(a.e), 1)
    ELSE FloatOf(a.m * n, Pow2(-a.e))

\* int(a) for a float a >= 0: the fraction is dropped
IntOf(a) == IF a.e >= 0 THEN a.m * Pow2(a.e) ELSE a.m \div Pow2(-a.e)

\* weights = [1/3, 1/3, 1/3]
Weights == [i \in 0..(NumComponents - 1) |-> FloatOf(1, 3)]

\* means = [[0.5, 0.5], [0.75, 0.75], [0.25, 0.75]], in units of 1/4
Means == [i \in 0..(NumComponents - 1) |->
            IF i = 0 THEN <<2, 2>> ELSE IF i = 1 THEN <<3, 3>> ELSE <<1, 3>>]

\* the deviations from the mean a draw takes, in units of 1/4
Deviations == {-1, 1}

\* np.random.multivariate_normal(mean, cov, size): size rows of two features;
\* the rows of the draws the model makes deviate from the mean by d and -d in
\* turn
MultivariateNormal(mean, d, size) ==
    [k \in 1..size |-> IF k % 2 = 1 THEN <<mean[1] + d, mean[2] + d>>
                       ELSE <<mean[1] - d, mean[2] - d>>]

\* np.vstack of a list of arrays of rows
RECURSIVE VStack(_)
VStack(arrays) ==
    IF arrays = <<>> THEN <<>> ELSE Head(arrays).rows \o VStack(Tail(arrays))

InitGmm ==
    /\ InitWith({0}, {1}, {1})
    /\ shp = NoProbe /\ px = NoPixels /\ AudioIdle
    /\ gmm_pc = "comprehension"
    /\ n_samples \in 0..MaxSamples
    /\ blocks = <<>> /\ data = None

\* lines 419-420: one pass of the comprehension, for i = Len(blocks)
GenerateData_Sample ==
    /\ gmm_pc = "comprehension"
    /\ Len(blocks) < NumComponents
    /\ LET i == Len(blocks)
           size == IntOf(FloatTimesInt(Weights[i], n_samples))
       IN  \E d \in Deviations :
              blocks' = Append(blocks,
                               [component |-> i,
                                rows |-> MultivariateNormal(Means[i], d, size)])
    /\ UNCHANGED <<pc, argVars, loopVars, lossVars, stepVars, ganVars, gdVars,
                   out, histVars, shp, px, audioVars, gmm_pc, n_samples, data>>

\* line 419: np.vstack of the list, returned
GenerateData_VStack ==
    /\ gmm_pc = "comprehension"
    /\ Len(blocks) = NumComponents
    /\ data' = VStack(blocks)
    /\ gmm_pc' = "return"
    /\ UNCHANGED <<pc, argVars, loopVars, lossVars, stepVars, ganVars, gdVars,
                   out, histVars, shp, px, audioVars, n_samples, blocks>>

NextGmm == GenerateData_Sample \/ GenerateData_VStack

SpecGmm == InitGmm /\ [][NextGmm]_vars

\* C22: generate_data(n_samples) returns 3 * floor(n_samples / 3) rows of two
\* features: floor(n_samples / 3) rows of component 0, then as many of
\* component 1, then as many of component 2.  That is fewer than n_samples
\* rows when n_samples is not a multiple of 3 (99 for 100, 48 for 50), all of
\* them when it is, and none for n_samples < 3.
C22_RowsPerComponent ==
    /\ \A b \in DOMAIN blocks :
          /\ blocks[b].component = b - 1
          /\ Len(blocks[b].rows) = n_samples \div 3
    /\ gmm_pc = "return" =>
          LET per == n_samples \div 3
          IN  /\ Len(data) = 3 * per
              /\ \A k \in DOMAIN data : Len(data[k]) = 2
              /\ \A b \in 1..3 : \A k \in 1..per :
                    data[(b - 1) * per + k] = blocks[b].rows[k]
              /\ n_samples % 3 # 0 => Len(data) < n_samples
              /\ n_samples % 3 = 0 => Len(data) = n_samples
              /\ n_samples = 100 => Len(data) = 99
              /\ n_samples = 50 => Len(data) = 48
              /\ n_samples < 3 => Len(data) = 0

C22_Witness ==
    /\ gmm_pc = "return"
    /\ n_samples = 50
    /\ Len(data) = 48
    /\ blocks[1].rows # blocks[2].rows
    /\ data[17] = blocks[2].rows[1]

=============================================================================
